---- MODULE Spec2Model ----
(***************************************************************************)
(* Model of lcd-remote-app: the /display handler and the scroll_text task *)
(* of main.py, the display clear of waveshare_lcd.py, and the wrapping    *)
(* and frame extraction functions of text_renderer.py.                    *)
(***************************************************************************)
EXTENDS Integers, Sequences, FiniteSets, TLC

\* ---------------------------------------------------------------- bounds
\* number of POST /display requests explored
MaxSubmissions == 3
\* a submitted text wraps to 1..MaxTextLines display lines
MaxTextLines == 2
\* frames a session may present in the request-interleaving specification
MaxFrames == 2

\* ------------------------------------------------------ program constants
DISPLAY_HEIGHT == 240
FONT_SIZE == 28
LINE_SPACING == 6
SCROLL_SPEED == 3
\* the two separator lines scroll_text puts around the text
SeparatorLines == 2

Black == "#000000"
Red == "#ff0000"
\* values of DisplayText.backgroundColor that are explored
Colors == {Black, Red}

Requests == 1..MaxSubmissions
\* request r creates task r: a handler calls create_task at most once
Tasks == 1..MaxSubmissions
\* current_scroll_task = None
NoTask == 0

VARIABLES
    reqs,                 \* display_text invocations: position and arguments
    current_scroll_task,  \* main.py global
    tasks,                \* the asyncio tasks running scroll_text
    lcd,                  \* last write to the display
    f,                    \* a call of create_scroll_frame: arguments and result
    w,                    \* a call of create_scrollable_text_image: arguments and result
    ws                    \* a call of wrap_text_with_emoji, followed loop pass by loop pass

vars == <<reqs, current_scroll_task, tasks, lcd, f, w, ws>>
\* the variables of the web application
session == <<reqs, current_scroll_task, tasks, lcd>>
\* the variables of the calls of text_renderer functions taken on their own
calls == <<f, w, ws>>

\* ------------------------------------------------------------ scroll_text
\* a task that create_task has not made yet
NoTaskRec ==
    [pc |-> "none", must_cancel |-> FALSE, text_lines |-> 0, bg_color |-> Black,
     total_text_height |-> 0, y_position |-> 0,
     presented |-> FALSE, last_y |-> 0, clears |-> 0, clear_color |-> Black]

\* asyncio.create_task(scroll_text(text, textColor, backgroundColor))
NewTaskRec(n, bg) ==
    [NoTaskRec EXCEPT !.pc = "created", !.text_lines = n, !.bg_color = bg]

\* the coroutine has ended: its locals are gone, what it did to the display
\* and the arguments it was called with stay on record
Finished(rec) ==
    [rec EXCEPT !.pc = "finished", !.must_cancel = FALSE, !.text_lines = 0,
                !.total_text_height = 0, !.y_position = 0, !.last_y = 0]

\* Task.done()
Done(t) == tasks[t].pc = "finished"

\* height of the pre-rendered image: len(display_lines) * line_height
ImageHeight(display_lines) == display_lines * (FONT_SIZE + LINE_SPACING)

\* y_position = -DISPLAY_HEIGHT
StartPosition == -DISPLAY_HEIGHT

\* a loop that advances two steps per frame
NextPositionDouble(y, total_text_height) ==
    LET moved == y + 2 * SCROLL_SPEED
    IN  IF moved >= total_text_height THEN -DISPLAY_HEIGHT ELSE moved

\* a loop that restarts at the top of the image instead of below the screen
NextPositionResetZero(y, total_text_height) ==
    LET moved == y + SCROLL_SPEED
    IN  IF moved >= total_text_height THEN 0 ELSE moved

\* a loop that resets only once the position is past the image height
NextPositionLateReset(y, total_text_height) ==
    LET moved == y + SCROLL_SPEED
    IN  IF moved > total_text_height THEN -DISPLAY_HEIGHT ELSE moved

\* y_position += SCROLL_SPEED, looping back when the text has scrolled off
NextPosition(y, total_text_height) ==
    LET moved == y + SCROLL_SPEED
    IN  IF moved >= total_text_height THEN -DISPLAY_HEIGHT ELSE moved

\* the colour the except-branch passes to waveshare_lcd.clear
CancelClearColor(bg_color) == Black

\* an except-branch that re-raises without clearing
OnCancelledNoClear(rec) == Finished(rec)

\* the except-branch: waveshare_lcd.clear(...), then re-raise ends the task
OnCancelled(rec) ==
    [Finished(rec) EXCEPT !.clears = @ + 1,
                          !.clear_color = CancelClearColor(rec.bg_color)]

\* one pass of the while-loop body up to the await: the frame at y_position
\* is displayed, the position moves, the task suspends in asyncio.sleep
LoopBody(rec) ==
    [rec EXCEPT !.presented = TRUE,
                !.last_y = rec.y_position,
                !.y_position = NextPosition(rec.y_position, rec.total_text_height),
                !.pc = "sleeping"]

\* first step of the task. A task cancelled before its first step gets the
\* CancelledError thrown into the unstarted coroutine: no line of scroll_text
\* runs, the try block is never entered.
TaskFirstStep(t) ==
    /\ tasks[t].pc = "created"
    /\ IF tasks[t].must_cancel
       THEN /\ tasks' = [tasks EXCEPT ![t] = Finished(tasks[t])]
            /\ UNCHANGED lcd
       ELSE LET h == ImageHeight(tasks[t].text_lines + SeparatorLines)
                rec == [tasks[t] EXCEPT !.total_text_height = h,
                                        !.y_position = StartPosition]
            IN  /\ tasks' = [tasks EXCEPT ![t] = LoopBody(rec)]
                /\ lcd' = [op |-> "frame", by |-> t, color |-> rec.bg_color,
                           y |-> rec.y_position]
    /\ UNCHANGED <<reqs, current_scroll_task, calls>>

\* the task resumes from asyncio.sleep: with CancelledError when cancel() was
\* called (clear, re-raise), with the next loop iteration otherwise.
\* capY bounds the positions explored.
TaskWake(t, capY) ==
    /\ tasks[t].pc = "sleeping"
    /\ IF tasks[t].must_cancel
       THEN LET ended == OnCancelled(tasks[t])
            IN  /\ tasks' = [tasks EXCEPT ![t] = ended]
                /\ lcd' = IF ended.clears > tasks[t].clears
                          THEN [op |-> "clear", by |-> t,
                                color |-> ended.clear_color, y |-> 0]
                          ELSE lcd
       ELSE /\ tasks[t].y_position < capY
            /\ tasks' = [tasks EXCEPT ![t] = LoopBody(tasks[t])]
            /\ lcd' = [op |-> "frame", by |-> t, color |-> tasks[t].bg_color,
                       y |-> tasks[t].y_position]
    /\ UNCHANGED <<reqs, current_scroll_task, calls>>

\* ----------------------------------------------------------- display_text
\* does the handler cancel and await the existing task?
MustWaitFor(old) == old # NoTask /\ ~Done(old)

\* current_scroll_task = asyncio.create_task(scroll_text(...)); return
CreateTask(r, n, bg) ==
    /\ tasks' = [tasks EXCEPT ![r] = NewTaskRec(n, bg)]
    /\ current_scroll_task' = r

\* POST /display arrives: the handler runs up to its await, or to its return
DisplayTextEntry(r) ==
    /\ reqs[r].pc = "idle"
    /\ \A q \in 1..(r - 1) : reqs[q].pc # "idle"
    /\ \E n \in 1..MaxTextLines, bg \in Colors :
         LET old == current_scroll_task
         IN  IF MustWaitFor(old)
             THEN /\ tasks' = [tasks EXCEPT ![old].must_cancel = TRUE]
                  /\ reqs' = [reqs EXCEPT ![r] = [pc |-> "await", old |-> old,
                                                   text_lines |-> n, bg |-> bg]]
                  /\ UNCHANGED current_scroll_task
             ELSE /\ CreateTask(r, n, bg)
                  /\ reqs' = [reqs EXCEPT ![r] = [pc |-> "returned", old |-> NoTask,
                                                   text_lines |-> 0, bg |-> Black]]
    /\ UNCHANGED <<lcd, calls>>

\* a handler that calls cancel() and goes on without awaiting the task
DisplayTextResumeNoAwait(r) ==
    /\ reqs[r].pc = "await"
    /\ CreateTask(r, reqs[r].text_lines, reqs[r].bg)
    /\ reqs' = [reqs EXCEPT ![r] = [pc |-> "returned", old |-> reqs[r].old,
                                     text_lines |-> 0, bg |-> Black]]
    /\ UNCHANGED <<lcd, calls>>

\* the awaited task is done: the handler resumes after the try/except
DisplayTextResume(r) ==
    /\ reqs[r].pc = "await"
    /\ Done(reqs[r].old)
    /\ CreateTask(r, reqs[r].text_lines, reqs[r].bg)
    /\ reqs' = [reqs EXCEPT ![r] = [pc |-> "returned", old |-> reqs[r].old,
                                     text_lines |-> 0, bg |-> Black]]
    /\ UNCHANGED <<lcd, calls>>

\* ---------------------------------------------------------- specification
\* no call of a text_renderer function is being looked at
NoCall == [pc |-> "none"]

\* after lifespan startup: waveshare_lcd.init() has cleared the display
Init ==
    /\ f = NoCall
    /\ w = NoCall
    /\ ws = NoCall
    /\ reqs = [r \in Requests |-> [pc |-> "idle", old |-> NoTask,
                                   text_lines |-> 0, bg |-> Black]]
    /\ current_scroll_task = NoTask
    /\ tasks = [t \in Tasks |-> NoTaskRec]
    /\ lcd = [op |-> "clear", by |-> NoTask, color |-> Black, y |-> 0]

FrameCapY == StartPosition + MaxFrames * SCROLL_SPEED

Next ==
    \/ \E r \in Requests : DisplayTextEntry(r)
    \/ \E r \in Requests : DisplayTextResume(r)
    \/ \E t \in Tasks : TaskFirstStep(t)
    \/ \E t \in Tasks : TaskWake(t, FrameCapY)

Spec == Init /\ [][Next]_vars

\* One session on its own: the state after a single POST /display has
\* returned, and the steps of its task, over whole scroll cycles.
InitScroll ==
    /\ \E n \in 1..MaxTextLines, bg \in Colors :
         tasks = [t \in Tasks |-> IF t = 1 THEN NewTaskRec(n, bg) ELSE NoTaskRec]
    /\ reqs = [r \in Requests |-> [pc |-> IF r = 1 THEN "returned" ELSE "idle",
                                   old |-> NoTask, text_lines |-> 0, bg |-> Black]]
    /\ current_scroll_task = 1
    /\ f = NoCall
    /\ w = NoCall
    /\ ws = NoCall
    /\ lcd = [op |-> "clear", by |-> NoTask, color |-> Black, y |-> 0]

NextScroll ==
    \/ \E t \in Tasks : TaskFirstStep(t)
    \/ \E t \in Tasks : TaskWake(t, tasks[t].total_text_height)

SpecScroll == InitScroll /\ [][NextScroll]_vars

\* the event loop runs every ready callback: a task whose sleep has expired
\* is resumed
FairScroll == SpecScroll /\ WF_vars(NextScroll)

\* ---------------------------------------------------- create_scroll_frame
\* bounds of the calls explored
MaxCanvasHeight == 5
MaxDisplayHeight == 3
MaxOffset == 7

\* An image is the sequence of its rows, top first; all columns of a row are
\* treated alike (every crop and paste spans the full width). Row i of the
\* pre-rendered image is labelled i, a background row of a new frame 0, and
\* a row Image.crop reads from outside the image -1.
BgRow == 0
OutsideRow == -1
FullImage(height) == [i \in 1..height |-> i]

Min(a, b) == IF a < b THEN a ELSE b

\* Image.new('RGB', (display_width, display_height), color=bg_color)
NewFrame(display_height) == [r \in 1..display_height |-> BgRow]

\* Image.crop((0, top, width, bottom)): rows top..bottom-1 (0-based); rows
\* outside the image come back filled rather than raising
Crop(image, top, bottom) ==
    [i \in 1..(bottom - top) |->
        LET src == top + i - 1
        IN  IF 0 <= src /\ src < Len(image) THEN image[src + 1] ELSE OutsideRow]

\* Image.paste(crop, (0, dest_y)): rows that fall outside the frame are clipped
Paste(frame, crop, dest_y) ==
    [r \in 1..Len(frame) |->
        LET k == (r - 1) - dest_y
        IN  IF 0 <= k /\ k < Len(crop) THEN crop[k + 1] ELSE frame[r]]

\* what a call did: the frame it returns, the branch taken, and the crop box
\* and paste row when it pasted
FrameResult(frame, branch, pasted, top, bottom, dest_y) ==
    [frame |-> frame, branch |-> branch, pasted |-> pasted,
     top |-> top, bottom |-> bottom, dest_y |-> dest_y]

\* a version that pastes the entering text at the top of the frame
create_scroll_frame_top(full_image, y_position, display_height) ==
    LET total_text_height == Len(full_image)
        frame == NewFrame(display_height)
    IN  IF y_position < 0
        THEN LET src_height == Min(total_text_height, display_height + y_position)
             IN  IF src_height > 0
                 THEN FrameResult(Paste(frame, Crop(full_image, 0, src_height), 0),
                                  "entering", TRUE, 0, src_height, 0)
                 ELSE FrameResult(frame, "entering", FALSE, 0, 0, 0)
        ELSE IF y_position + display_height <= total_text_height
        THEN FrameResult(Paste(frame,
                               Crop(full_image, y_position, y_position + display_height), 0),
                         "covered", TRUE, y_position, y_position + display_height, 0)
        ELSE IF total_text_height - y_position > 0
        THEN FrameResult(Paste(frame, Crop(full_image, y_position, total_text_height), 0),
                         "exiting", TRUE, y_position, total_text_height, 0)
        ELSE FrameResult(frame, "exiting", FALSE, 0, 0, 0)

create_scroll_frame(full_image, y_position, display_height) ==
    LET total_text_height == Len(full_image)
        frame == NewFrame(display_height)
    IN  IF y_position < 0
        THEN \* text hasn't fully entered yet
             LET src_y == 0
                 src_height == Min(total_text_height, display_height + y_position)
                 dest_y == -y_position
             IN  IF src_height > 0
                 THEN FrameResult(
                          Paste(frame, Crop(full_image, src_y, src_y + src_height), dest_y),
                          "entering", TRUE, src_y, src_y + src_height, dest_y)
                 ELSE FrameResult(frame, "entering", FALSE, 0, 0, 0)
        ELSE IF y_position + display_height <= total_text_height
        THEN \* text is fully visible
             FrameResult(Paste(frame,
                               Crop(full_image, y_position, y_position + display_height), 0),
                         "covered", TRUE, y_position, y_position + display_height, 0)
        ELSE \* text is scrolling off the top
             LET src_height == total_text_height - y_position
             IN  IF src_height > 0
                 THEN FrameResult(
                          Paste(frame, Crop(full_image, y_position, total_text_height), 0),
                          "exiting", TRUE, y_position, total_text_height, 0)
                 ELSE FrameResult(frame, "exiting", FALSE, 0, 0, 0)

\* a call with arguments drawn from the bounded sets
InitFrame ==
    /\ \E h \in 0..MaxCanvasHeight, y \in (-MaxOffset)..MaxOffset,
          d \in 0..MaxDisplayHeight :
         f = [pc |-> "called", canvas_height |-> h, y_position |-> y,
              display_height |-> d]
    /\ w = NoCall
    /\ ws = NoCall
    /\ reqs = [r \in Requests |-> [pc |-> "idle", old |-> NoTask,
                                   text_lines |-> 0, bg |-> Black]]
    /\ current_scroll_task = NoTask
    /\ tasks = [t \in Tasks |-> NoTaskRec]
    /\ lcd = [op |-> "clear", by |-> NoTask, color |-> Black, y |-> 0]

\* the call returns
ExtractFrame ==
    /\ f.pc = "called"
    /\ f' = [pc |-> "returned", canvas_height |-> f.canvas_height,
             y_position |-> f.y_position, display_height |-> f.display_height,
             out |-> create_scroll_frame(FullImage(f.canvas_height), f.y_position,
                                         f.display_height)]
    /\ UNCHANGED <<session, w, ws>>

NextFrame == ExtractFrame

SpecFrame == InitFrame /\ [][NextFrame]_vars

\* ------------------------------------------- wrapping (text_renderer.py)
\* longest text explored
MaxTextLen == 4

TEXT_MARGIN_PX == 10
\* native size of the NotoColorEmoji bitmaps
EmojiNativeSize == 109
\* padding around an emoji on each side
EmojiPadding == 20

\* A string is the sequence of its characters. The characters explored: a
\* space, a line break, a narrow and a wide letter, an emoji (U+1F600) and
\* a variation selector (U+FE0F).
Alphabet == {" ", "\n", "a", "W", "E", "v"}
Texts == UNION {[1..n -> Alphabet] : n \in 0..MaxTextLen}
\* values of display_width explored: budgets of 0, 17, 43 and 60 pixels
DisplayWidths == {20, 37, 63, 80}

\* str.isspace, as str.strip() and str.split() use it
IsSpace(c) == c \in {" ", "\n"}

\* ord(char) in range(0xFE00, 0xFE10) or char == ZERO WIDTH JOINER
IsIgnorable(c) == c = "v"

is_emoji_char(c) == c \in {"E", "v"}

\* draw.textbbox((0, 0), char, font): width of one glyph of the regular
\* font at FONT_SIZE, as the font file gives it (sample metrics)
GlyphWidth(c) ==
    CASE c = " " -> 9
      [] c = "a" -> 17
      [] c = "W" -> 28
      [] c = "E" -> 24
      [] OTHER -> 0

\* int((109 + 40) * emoji_scale), emoji_scale = emoji_font_size / 109.0
ScaledEmojiSize(emoji_font_size) ==
    ((EmojiNativeSize + 2 * EmojiPadding) * emoji_font_size) \div EmojiNativeSize

\* the width one character adds in calculate_text_width; emoji_font tells
\* whether get_emoji_font found the emoji font
CharWidth(c, emoji_font, emoji_font_size) ==
    IF IsIgnorable(c) THEN 0
    ELSE IF emoji_font /\ is_emoji_char(c) THEN ScaledEmojiSize(emoji_font_size)
    ELSE GlyphWidth(c)

RECURSIVE calculate_text_width(_, _, _)
calculate_text_width(text, emoji_font, emoji_font_size) ==
    IF text = <<>> THEN 0
    ELSE CharWidth(Head(text), emoji_font, emoji_font_size)
         + calculate_text_width(Tail(text), emoji_font, emoji_font_size)

\* not text.strip()
IsBlank(text) == \A i \in 1..Len(text) : IsSpace(text[i])

\* text.split(sep) for a one-character separator: empty pieces are kept
RECURSIVE SplitOn(_, _)
SplitOn(text, sep) ==
    IF \A i \in 1..Len(text) : text[i] # sep THEN <<text>>
    ELSE LET k == CHOOSE i \in 1..Len(text) :
                      text[i] = sep /\ \A j \in 1..(i - 1) : text[j] # sep
         IN  <<SubSeq(text, 1, k - 1)>> \o SplitOn(SubSeq(text, k + 1, Len(text)), sep)

\* text.split(): pieces between runs of whitespace, none empty
RECURSIVE SplitWords(_)
SplitWords(text) ==
    IF text = <<>> THEN <<>>
    ELSE IF IsSpace(Head(text)) THEN SplitWords(Tail(text))
    ELSE LET stop == IF \E i \in 1..Len(text) : IsSpace(text[i])
                     THEN CHOOSE i \in 1..Len(text) :
                              IsSpace(text[i]) /\ \A j \in 1..(i - 1) : ~IsSpace(text[j])
                     ELSE Len(text) + 1
         IN  <<SubSeq(text, 1, stop - 1)>> \o SplitWords(SubSeq(text, stop, Len(text)))

\* an inner loop that measures the line before the character is added
BreakStepLate(st, char, max_width_px, emoji_font, emoji_font_size) ==
    LET test_char_line == Append(st.char_line, char)
    IN  IF calculate_text_width(st.char_line, emoji_font, emoji_font_size) <= max_width_px
        THEN [lines |-> st.lines, char_line |-> test_char_line]
        ELSE [lines |-> IF st.char_line # <<>> THEN Append(st.lines, st.char_line)
                        ELSE st.lines,
              char_line |-> <<char>>]

\* an inner loop that starts the next line empty, losing the character
BreakStepDrop(st, char, max_width_px, emoji_font, emoji_font_size) ==
    LET test_char_line == Append(st.char_line, char)
    IN  IF calculate_text_width(test_char_line, emoji_font, emoji_font_size) <= max_width_px
        THEN [lines |-> st.lines, char_line |-> test_char_line]
        ELSE [lines |-> IF st.char_line # <<>> THEN Append(st.lines, st.char_line)
                        ELSE st.lines,
              char_line |-> <<>>]

\* the inner loop `for char in word`: st is [lines, char_line]
BreakStep(st, char, max_width_px, emoji_font, emoji_font_size) ==
    LET test_char_line == Append(st.char_line, char)
    IN  IF calculate_text_width(test_char_line, emoji_font, emoji_font_size) <= max_width_px
        THEN [lines |-> st.lines, char_line |-> test_char_line]
        ELSE [lines |-> IF st.char_line # <<>> THEN Append(st.lines, st.char_line)
                        ELSE st.lines,
              char_line |-> <<char>>]

RECURSIVE BreakWord(_, _, _, _, _)
BreakWord(st, word, max_width_px, emoji_font, emoji_font_size) ==
    IF word = <<>> THEN st
    ELSE BreakWord(BreakStep(st, Head(word), max_width_px, emoji_font, emoji_font_size),
                   Tail(word), max_width_px, emoji_font, emoji_font_size)

\* a word loop that does not break a long word that follows a flushed line
WordStepNoBreak(st, word, max_width_px, emoji_font, emoji_font_size) ==
    LET test_line == st.current_line
                     \o (IF st.current_line # <<>> THEN <<" ">> ELSE <<>>) \o word
        broken == BreakWord([lines |-> <<>>, char_line |-> <<>>], word,
                            max_width_px, emoji_font, emoji_font_size)
    IN  IF calculate_text_width(test_line, emoji_font, emoji_font_size) <= max_width_px
        THEN [lines |-> st.lines, current_line |-> test_line]
        ELSE IF st.current_line # <<>>
        THEN [lines |-> Append(st.lines, st.current_line), current_line |-> word]
        ELSE [lines |-> st.lines \o broken.lines, current_line |-> broken.char_line]

\* one pass of `for word in words`: st is [lines, current_line]
WordStep(st, word, max_width_px, emoji_font, emoji_font_size) ==
    LET test_line == st.current_line
                     \o (IF st.current_line # <<>> THEN <<" ">> ELSE <<>>) \o word
        broken == BreakWord([lines |-> <<>>, char_line |-> <<>>], word,
                            max_width_px, emoji_font, emoji_font_size)
    IN  IF calculate_text_width(test_line, emoji_font, emoji_font_size) <= max_width_px
        THEN [lines |-> st.lines, current_line |-> test_line]
        ELSE IF st.current_line # <<>>
        THEN IF calculate_text_width(word, emoji_font, emoji_font_size) > max_width_px
             THEN [lines |-> Append(st.lines, st.current_line) \o broken.lines,
                   current_line |-> broken.char_line]
             ELSE [lines |-> Append(st.lines, st.current_line), current_line |-> word]
        ELSE [lines |-> st.lines \o broken.lines, current_line |-> broken.char_line]

RECURSIVE WordLoop(_, _, _, _, _)
WordLoop(st, words, max_width_px, emoji_font, emoji_font_size) ==
    IF words = <<>> THEN st
    ELSE WordLoop(WordStep(st, Head(words), max_width_px, emoji_font, emoji_font_size),
                  Tail(words), max_width_px, emoji_font, emoji_font_size)

wrap_text_with_emoji(text, max_width_px, emoji_font, emoji_font_size) ==
    IF IsBlank(text) THEN <<(<<>>)>>
    ELSE LET st == WordLoop([lines |-> <<>>, current_line |-> <<>>], SplitWords(text),
                            max_width_px, emoji_font, emoji_font_size)
             lines == IF st.current_line # <<>> THEN Append(st.lines, st.current_line)
                      ELSE st.lines
         IN  IF lines # <<>> THEN lines ELSE <<(<<>>)>>

\* max_width_px = display_width - (2 * TEXT_MARGIN_PX)
MaxWidthPx(display_width) == display_width - (2 * TEXT_MARGIN_PX)

\* a loop that wraps the non-blank raw lines and passes over the blank ones
RECURSIVE DisplayLinesSkipBlank(_, _, _, _)
DisplayLinesSkipBlank(raw_lines, max_width_px, emoji_font, font_size) ==
    IF raw_lines = <<>> THEN <<>>
    ELSE (IF IsBlank(Head(raw_lines)) THEN <<>>
          ELSE wrap_text_with_emoji(Head(raw_lines), max_width_px, emoji_font, font_size))
         \o DisplayLinesSkipBlank(Tail(raw_lines), max_width_px, emoji_font, font_size)

\* the loop `for raw_line in raw_lines` of create_scrollable_text_image
RECURSIVE DisplayLines(_, _, _, _)
DisplayLines(raw_lines, max_width_px, emoji_font, font_size) ==
    IF raw_lines = <<>> THEN <<>>
    ELSE (IF IsBlank(Head(raw_lines)) THEN <<(<<>>)>>
          ELSE wrap_text_with_emoji(Head(raw_lines), max_width_px, emoji_font, font_size))
         \o DisplayLines(Tail(raw_lines), max_width_px, emoji_font, font_size)

\* total_height = len(display_lines) * line_height
TotalHeight(display_lines, font_size, line_spacing) ==
    Len(display_lines) * (font_size + line_spacing)

\* scaled_size = int(temp_size * emoji_scale), temp_size = 109 + padding * 2
ScaledSize(emoji_font_size) ==
    ((EmojiNativeSize + EmojiPadding * 2) * emoji_font_size) \div EmojiNativeSize

\* the loop `while i < len(text)` of render_text_with_emoji: st is [x, texts],
\* x the pen position and texts the strings handed to a font so far
RECURSIVE RenderLoop(_, _, _)
RenderLoop(st, text, emoji_font_size) ==
    IF text = <<>> THEN st
    ELSE LET char == Head(text)
             next == IF IsIgnorable(char) THEN st
                     ELSE IF is_emoji_char(char)
                     THEN [x |-> st.x + ScaledSize(emoji_font_size),
                           texts |-> Append(st.texts, <<char>>)]
                     ELSE [x |-> st.x + GlyphWidth(char),
                           texts |-> Append(st.texts, <<char>>)]
         IN  RenderLoop(next, Tail(text), emoji_font_size)

\* render_text_with_emoji(draw, (x, y), text, ...): without the emoji font
\* the whole text goes to draw.text in one call and x is not advanced
render_text_with_emoji(x, text, emoji_font, emoji_font_size) ==
    IF ~emoji_font THEN [x |-> x, texts |-> <<text>>]
    ELSE RenderLoop([x |-> x, texts |-> <<>>], text, emoji_font_size)

\* the rendering of one Line in create_scrollable_text_image: measured,
\* centred, drawn; a blank Line is not drawn
RenderedLine(line, display_width, emoji_font, font_size) ==
    IF IsBlank(line)
    THEN [line |-> line, drawn |-> FALSE, text_width |-> 0, x |-> 0, x_end |-> 0,
          texts |-> <<>>]
    ELSE LET text_width == calculate_text_width(line, emoji_font, font_size)
             x == (display_width - text_width) \div 2
             out == render_text_with_emoji(x, line, emoji_font, font_size)
         IN  [line |-> line, drawn |-> TRUE, text_width |-> text_width, x |-> x,
              x_end |-> out.x, texts |-> out.texts]

\* a call with arguments drawn from the bounded sets; emoji_font is whether
\* the emoji font file is installed
InitWrap ==
    /\ \E text \in Texts, display_width \in DisplayWidths, emoji_font \in BOOLEAN :
         w = [pc |-> "called", text |-> text, display_width |-> display_width,
              emoji_font |-> emoji_font]
    /\ f = NoCall
    /\ ws = NoCall
    /\ reqs = [r \in Requests |-> [pc |-> "idle", old |-> NoTask,
                                   text_lines |-> 0, bg |-> Black]]
    /\ current_scroll_task = NoTask
    /\ tasks = [t \in Tasks |-> NoTaskRec]
    /\ lcd = [op |-> "clear", by |-> NoTask, color |-> Black, y |-> 0]

\* create_scrollable_text_image lays the text out and renders the Lines;
\* wrapped records what wrap_text_with_emoji returns for each raw line
CreateImage ==
    /\ w.pc = "called"
    /\ LET max_width_px == MaxWidthPx(w.display_width)
           raw_lines == SplitOn(w.text, "\n")
           display_lines == DisplayLines(raw_lines, max_width_px, w.emoji_font, FONT_SIZE)
       IN  w' = [pc |-> "laid out", text |-> w.text, display_width |-> w.display_width,
                 emoji_font |-> w.emoji_font,
                 raw_lines |-> raw_lines,
                 wrapped |-> [i \in 1..Len(raw_lines) |->
                                 wrap_text_with_emoji(raw_lines[i], max_width_px,
                                                      w.emoji_font, FONT_SIZE)],
                 display_lines |-> display_lines,
                 total_height |-> TotalHeight(display_lines, FONT_SIZE, LINE_SPACING),
                 rendered |-> [k \in 1..Len(display_lines) |->
                                  RenderedLine(display_lines[k], w.display_width,
                                               w.emoji_font, FONT_SIZE)]]
    /\ UNCHANGED <<session, f, ws>>

\* the lines that were produced are laid out a second time, each as a raw line
LayOutAgain ==
    /\ w.pc = "laid out"
    /\ w' = [w EXCEPT !.pc = "laid out again",
                      !.raw_lines = w.display_lines,
                      !.wrapped = [i \in 1..Len(w.display_lines) |->
                                      wrap_text_with_emoji(w.display_lines[i],
                                                           MaxWidthPx(w.display_width),
                                                           w.emoji_font, FONT_SIZE)],
                      !.display_lines = DisplayLines(w.display_lines,
                                                     MaxWidthPx(w.display_width),
                                                     w.emoji_font, FONT_SIZE)]
    /\ UNCHANGED <<session, f, ws>>

NextWrap == CreateImage \/ LayOutAgain

SpecWrap == InitWrap /\ [][NextWrap]_vars

\* ------------------------------ wrap_text_with_emoji, one loop pass a step
\* a comparison that rejects a line exactly as wide as the budget
FitsBudgetStrict(text, max_width_px, emoji_font, emoji_font_size) ==
    calculate_text_width(text, emoji_font, emoji_font_size) < max_width_px

\* test_width <= max_width_px, char_width <= max_width_px
FitsBudget(text, max_width_px, emoji_font, emoji_font_size) ==
    calculate_text_width(text, emoji_font, emoji_font_size) <= max_width_px

\* test_line = current_line + (" " if current_line else "") + word
TestLine(current_line, word) ==
    current_line \o (IF current_line # <<>> THEN <<" ">> ELSE <<>>) \o word

\* an inner loop that, when the character does not fit, flushes and tries the
\* same character again on the emptied line
CharLoopPassRetry(s, max_width_px, emoji_font, emoji_font_size) ==
    LET char == Head(s.rest)
        fits == FitsBudget(Append(s.char_line, char), max_width_px,
                           emoji_font, emoji_font_size)
    IN  IF fits
        THEN [lines |-> s.lines, char_line |-> Append(s.char_line, char),
              rest |-> Tail(s.rest)]
        ELSE [lines |-> IF s.char_line # <<>> THEN Append(s.lines, s.char_line)
                        ELSE s.lines,
              char_line |-> <<>>, rest |-> s.rest]

\* one pass of `for char in word`: the loop takes the next character of the
\* word, the body is BreakStep; s is [lines, char_line, rest]
CharLoopPass(s, max_width_px, emoji_font, emoji_font_size) ==
    LET st == BreakStep([lines |-> s.lines, char_line |-> s.char_line],
                        Head(s.rest), max_width_px, emoji_font, emoji_font_size)
    IN  [lines |-> st.lines, char_line |-> st.char_line, rest |-> Tail(s.rest)]

\* the texts wrap_text_with_emoji is called with: pieces of text.split('\n'),
\* which hold no line break
RawLineTexts == {text \in Texts : \A i \in 1..Len(text) : text[i] # "\n"}

\* a call of wrap_text_with_emoji with arguments drawn from the bounded sets
InitWrapSteps ==
    /\ \E text \in RawLineTexts, display_width \in DisplayWidths, emoji_font \in BOOLEAN :
         ws = [pc |-> "called", text |-> text,
               max_width_px |-> MaxWidthPx(display_width), emoji_font |-> emoji_font,
               words |-> <<>>, lines |-> <<>>, current_line |-> <<>>,
               rest |-> <<>>, char_line |-> <<>>]
    /\ f = NoCall
    /\ w = NoCall
    /\ reqs = [r \in Requests |-> [pc |-> "idle", old |-> NoTask,
                                   text_lines |-> 0, bg |-> Black]]
    /\ current_scroll_task = NoTask
    /\ tasks = [t \in Tasks |-> NoTaskRec]
    /\ lcd = [op |-> "clear", by |-> NoTask, color |-> Black, y |-> 0]

\* entry: a blank text returns [""], any other text is split into words
WrapEnter ==
    /\ ws.pc = "called"
    /\ ws' = IF IsBlank(ws.text)
             THEN [ws EXCEPT !.pc = "returned", !.lines = <<(<<>>)>>]
             ELSE [ws EXCEPT !.pc = "words", !.words = SplitWords(ws.text)]
    /\ UNCHANGED <<session, f, w>>

\* one pass of `for word in words`, up to the start of a character loop
WordPass ==
    /\ ws.pc = "words"
    /\ ws.words # <<>>
    /\ LET word == Head(ws.words)
           test_line == TestLine(ws.current_line, word)
           next == [ws EXCEPT !.words = Tail(ws.words)]
       IN  ws' = IF FitsBudget(test_line, ws.max_width_px, ws.emoji_font, FONT_SIZE)
                 THEN [next EXCEPT !.current_line = test_line]
                 ELSE IF ws.current_line # <<>>
                 THEN IF ~FitsBudget(word, ws.max_width_px, ws.emoji_font, FONT_SIZE)
                      THEN [next EXCEPT !.lines = Append(ws.lines, ws.current_line),
                                        !.current_line = <<>>, !.char_line = <<>>,
                                        !.rest = word, !.pc = "chars"]
                      ELSE [next EXCEPT !.lines = Append(ws.lines, ws.current_line),
                                        !.current_line = word]
                 ELSE [next EXCEPT !.char_line = <<>>, !.rest = word, !.pc = "chars"]
    /\ UNCHANGED <<session, f, w>>

\* one pass of `for char in word`
CharPass ==
    /\ ws.pc = "chars"
    /\ ws.rest # <<>>
    /\ LET s == CharLoopPass([lines |-> ws.lines, char_line |-> ws.char_line,
                              rest |-> ws.rest],
                             ws.max_width_px, ws.emoji_font, FONT_SIZE)
       IN  ws' = [ws EXCEPT !.lines = s.lines, !.char_line = s.char_line,
                            !.rest = s.rest]
    /\ UNCHANGED <<session, f, w>>

\* the character loop is exhausted: current_line = char_line
CharLoopExit ==
    /\ ws.pc = "chars"
    /\ ws.rest = <<>>
    /\ ws' = [ws EXCEPT !.pc = "words", !.current_line = ws.char_line,
                        !.char_line = <<>>]
    /\ UNCHANGED <<session, f, w>>

\* the word loop is exhausted: the remaining text is added and the lines
\* are returned
WrapReturn ==
    /\ ws.pc = "words"
    /\ ws.words = <<>>
    /\ LET lines == IF ws.current_line # <<>> THEN Append(ws.lines, ws.current_line)
                    ELSE ws.lines
       IN  ws' = [ws EXCEPT !.pc = "returned",
                            !.lines = IF lines # <<>> THEN lines ELSE <<(<<>>)>>]
    /\ UNCHANGED <<session, f, w>>

NextWrapSteps == WrapEnter \/ WordPass \/ CharPass \/ CharLoopExit \/ WrapReturn

SpecWrapSteps == InitWrapSteps /\ [][NextWrapSteps]_vars

\* the interpreter runs the next statement of a call that has not returned
FairWrapSteps == SpecWrapSteps /\ WF_vars(NextWrapSteps)

\* ------------------------------------------------------------------ claims
\* a session that is inside its loop and will present another frame
Active(t) == tasks[t].pc = "sleeping" /\ ~tasks[t].must_cancel

\* task t writes a frame to the display in this step
Presents(t) == lcd' # lcd /\ lcd'.op = "frame" /\ lcd'.by = t

\* C1: at any instant at most one scroll session is active (in its loop and
\* writing frames), whatever the interleaving of submissions.
C1_AtMostOneActiveSession ==
    Cardinality({t \in Tasks : Active(t)}) <= 1

\* C2 as stated: a session whose cancellation was requested, at whatever
\* point of its life, ends having made exactly one clear() call.
C2_ExactlyOneClearWhenever ==
    \A t \in Tasks : Done(t) => tasks[t].clears = 1

\* C2 amended: once cancellation of a session is requested the session
\* presents no further frame; a session that had started (it is suspended in
\* its frame interval) then makes exactly one clear() call and ends, while a
\* session cancelled before its first step ends with no present and no clear.
C2_CancelStopsThenClearsOnce ==
    /\ [][\A t \in Tasks : tasks[t].must_cancel => ~Presents(t)]_vars
    /\ [](\A t \in Tasks :
            /\ tasks[t].clears <= 1
            /\ tasks[t].clears = 1 => Done(t) /\ tasks[t].presented
            /\ Done(t) => tasks[t].clears = (IF tasks[t].presented THEN 1 ELSE 0))

\* C2 witness: one session was cancelled while scrolling and has cleared,
\* another was cancelled before it ran
C2_Witness ==
    \E t, u \in Tasks :
        /\ Done(t) /\ tasks[t].presented /\ tasks[t].clears = 1
        /\ Done(u) /\ ~tasks[u].presented /\ tasks[u].clears = 0

\* C3: a submitter that finds a session scrolling requests its cancellation
\* and blocks; the old session has ended, with its clear() done, before the
\* submitter's new session is created and hence before its first present().
C3_OldTeardownBeforeNew ==
    \A r \in Requests :
        LET old == reqs[r].old
        IN  /\ reqs[r].pc = "await" =>
                  /\ tasks[r].pc = "none"
                  /\ tasks[old].must_cancel \/ Done(old)
            /\ (old # NoTask /\ tasks[r].pc # "none") =>
                  /\ Done(old)
                  /\ tasks[old].presented => tasks[old].clears = 1

\* C3 witness: a new session presents after the scrolling session it
\* replaced has been cancelled and has cleared the display
C3_Witness ==
    \E r \in Requests :
        /\ reqs[r].old # NoTask
        /\ tasks[r].presented
        /\ tasks[reqs[r].old].presented
        /\ tasks[reqs[r].old].clears = 1

\* C4: on cancellation the display is cleared to the background colour the
\* cancelled session was submitted with.
C4_ClearsToSessionBackground ==
    \A t \in Tasks : tasks[t].clears > 0 => tasks[t].clear_color = tasks[t].bg_color

\* C5: for every canvas height and every integer offset the returned frame
\* has exactly display_height rows, frame row r shows canvas row r + offset
\* when that row exists and background otherwise, the branch taken is the one
\* case that applies, and a paste crops inside the image and lands inside
\* the frame.
C5_FrameRows ==
    f.pc = "returned" =>
        LET h == f.canvas_height
            y == f.y_position
            d == f.display_height
            out == f.out
        IN  /\ Len(out.frame) = d
            /\ \A r \in 0..(d - 1) :
                   out.frame[r + 1] =
                       (IF 0 <= r + y /\ r + y < h THEN FullImage(h)[r + y + 1] ELSE BgRow)
            /\ out.branch = "entering" <=> y < 0
            /\ out.branch = "covered" <=> (0 <= y /\ y + d <= h)
            /\ out.branch = "exiting" <=> (0 <= y /\ y + d > h)
            /\ out.pasted =>
                   /\ 0 <= out.top /\ out.top <= out.bottom /\ out.bottom <= h
                   /\ 0 <= out.dest_y
                   /\ out.dest_y + (out.bottom - out.top) <= d

\* C5 witness: a canvas shorter than the display entering from below, partly
\* visible
C5_Witness ==
    /\ f.pc = "returned"
    /\ f.canvas_height = 2 /\ f.display_height = 3 /\ f.y_position = -2
    /\ f.out.frame = <<BgRow, BgRow, 1>>

\* the lines of a list of lines, joined without breaks
RECURSIVE Joined(_)
Joined(lines) == IF lines = <<>> THEN <<>> ELSE Head(lines) \o Joined(Tail(lines))

\* a string without its whitespace
NonSpace(text) == SelectSeq(text, LAMBDA c : ~IsSpace(c))

\* the layout has been computed
LaidOut == w.pc \in {"laid out", "laid out again"}

\* measured width of a produced Line
LineWidth(line) == calculate_text_width(line, w.emoji_font, FONT_SIZE)

C7_NothingLost ==
    LaidOut =>
        \A i \in 1..Len(w.raw_lines) :
            ~IsBlank(w.raw_lines[i]) =>
                /\ \A k \in 1..Len(w.wrapped[i]) : w.wrapped[i][k] # <<>>
                /\ NonSpace(Joined(w.wrapped[i])) = NonSpace(w.raw_lines[i])

\* C7 witness: a word wider than the budget after a word that fits
C7_Witness ==
    /\ w.pc = "laid out"
    /\ w.text = <<"a", " ", "W", "W">>
    /\ w.display_width = 63
    /\ w.wrapped = << << <<"a">>, <<"W">>, <<"W">> >> >>

\* C8: laying out the Lines a layout produced, each as an input line, with
\* the same width and font size gives the same sequence of Lines.
C8_Idempotent ==
    w.pc = "laid out again" => w.display_lines = w.raw_lines

\* C8 witness: a layout of several Lines, one of them from a split word and
\* one blank, laid out again
C8_Witness ==
    /\ w.pc = "laid out again"
    /\ w.text = <<"W", "W", "\n", "\n">>
    /\ w.display_width = 63
    /\ w.display_lines = << <<"W">>, <<"W">>, <<>>, <<>> >>

\* C9 as stated: the first frame is at +displayHeight and every next frame
\* is one step lower than the last (or is the wrap-around start).
C9_StartsBelowAndDecreases ==
    \A t \in Tasks :
        (tasks[t].pc = "sleeping" /\ tasks[t].presented) =>
            /\ tasks[t].last_y <= DISPLAY_HEIGHT
            /\ \/ tasks[t].y_position = tasks[t].last_y - SCROLL_SPEED
               \/ tasks[t].y_position = DISPLAY_HEIGHT

\* C9 amended: within one scroll cycle frames are presented starting at
\* offset -DISPLAY_HEIGHT and the offsets of successive frames are strictly
\* increasing by exactly SCROLL_SPEED, none skipped or reordered, while the
\* next offset stays below the image height; the only discontinuity is the
\* wrap-around reset to -DISPLAY_HEIGHT.
C9_StartsAboveAndIncreases ==
    [][\A t \in Tasks : Presents(t) =>
          LET shown == lcd'.y
              last == tasks[t].last_y
          IN  /\ shown = tasks'[t].last_y
              /\ IF ~tasks[t].presented
                 THEN shown = -DISPLAY_HEIGHT
                 ELSE IF last + SCROLL_SPEED < tasks[t].total_text_height
                      THEN shown = last + SCROLL_SPEED /\ shown > last
                      ELSE shown = -DISPLAY_HEIGHT]_vars

\* C9 witness: a session in the middle of a cycle, several frames in
C9_Witness ==
    \E t \in Tasks :
        /\ tasks[t].pc = "sleeping"
        /\ tasks[t].last_y = 0
        /\ tasks[t].y_position = SCROLL_SPEED

RECURSIVE WordsWork(_)
WordsWork(words) ==
    IF words = <<>> THEN 0 ELSE Len(Head(words)) + 2 + WordsWork(Tail(words))

WorkLeft(s) ==
    CASE s.pc = "called" -> 3 * Len(s.text) + 2
      [] s.pc = "words" -> WordsWork(s.words) + 1
      [] s.pc = "chars" -> WordsWork(s.words) + Len(s.rest) + 2
      [] OTHER -> 0

\* C11: wrap_text_with_emoji terminates for every text and every budget,
\* also a budget below the width of one character: every step of a call
\* uses up work that is left (a pass of the character loop takes exactly one
\* character off the word), a call that has not returned can always take a
\* step, every call returns, and what it returns are the Lines of
\* wrap_text_with_emoji.
C11_WrapTerminates ==
    /\ [][ws.pc # "none" =>
            /\ WorkLeft(ws') < WorkLeft(ws)
            /\ WorkLeft(ws') >= 0
            /\ (ws.pc = "chars" /\ ws'.pc = "chars") =>
                   /\ Len(ws'.rest) = Len(ws.rest) - 1
                   /\ ws'.words = ws.words]_vars
    /\ [](ws.pc \notin {"none", "returned"} => ENABLED <<NextWrapSteps>>_vars)
    /\ [](ws.pc = "returned" =>
            ws.lines = wrap_text_with_emoji(ws.text, ws.max_width_px,
                                            ws.emoji_font, FONT_SIZE))
    /\ <>(ws.pc = "returned")

\* C11 witness: a call with a budget no character fits has split a word
\* character by character and has returned
C11_Witness ==
    /\ ws.pc = "returned"
    /\ ws.max_width_px = 0
    /\ ws.text = <<"a", "W", " ", "a">>
    /\ ws.lines = << <<"a">>, <<"W">>, <<"a">> >>

\* the pieces of a text joined by line breaks
RECURSIVE JoinedByBreaks(_)
JoinedByBreaks(pieces) ==
    IF Len(pieces) = 1 THEN pieces[1]
    ELSE pieces[1] \o <<"\n">> \o JoinedByBreaks(Tail(pieces))

\* number of Lines input line i yields
LinesOf(i) == IF IsBlank(w.raw_lines[i]) THEN 1 ELSE Len(w.wrapped[i])

\* number of Lines the input lines before line i yield
RECURSIVE LinesBefore(_)
LinesBefore(i) == IF i = 1 THEN 0 ELSE LinesBefore(i - 1) + LinesOf(i - 1)

\* C12: the text is split at its line breaks and nowhere else; in the
\* Document the Lines of the input lines follow one another in input order,
\* a blank (empty or whitespace-only) input line gives exactly one empty Line
\* at its position, a non-blank input line gives one or more Lines, none
\* empty, that hold its characters; the canvas height is the number of
\* Lines times (FONT_SIZE + LINE_SPACING).
C12_LineBreaksKept ==
    LaidOut =>
        LET n == Len(w.raw_lines)
        IN  /\ n >= 1
            /\ w.pc = "laid out" =>
                   /\ JoinedByBreaks(w.raw_lines) = w.text
                   /\ \A i \in 1..n : \A k \in 1..Len(w.raw_lines[i]) :
                          w.raw_lines[i][k] # "\n"
            /\ Len(w.display_lines) = LinesBefore(n) + LinesOf(n)
            /\ \A i \in 1..n :
                   LET piece == SubSeq(w.display_lines, LinesBefore(i) + 1,
                                       LinesBefore(i) + LinesOf(i))
                   IN  IF IsBlank(w.raw_lines[i])
                       THEN piece = <<(<<>>)>>
                       ELSE /\ Len(piece) >= 1
                            /\ \A k \in 1..Len(piece) : piece[k] # <<>>
                            /\ NonSpace(Joined(piece)) = NonSpace(w.raw_lines[i])
            /\ w.total_height = Len(w.display_lines) * (FONT_SIZE + LINE_SPACING)

\* C12 witness: a word split over two Lines, then a whitespace-only input
\* line that gives one empty Line after them
C12_Witness ==
    /\ w.pc = "laid out"
    /\ w.text = <<"W", "W", "\n", " ">>
    /\ w.display_width = 63
    /\ w.raw_lines = << <<"W", "W">>, <<" ">> >>
    /\ w.display_lines = << <<"W">>, <<"W">>, <<>> >>
    /\ w.total_height = 102

\* C13: for every Line that is drawn, the horizontal advance
\* render_text_with_emoji makes over its code points (glyph width for a
\* regular one, scaled padded size for an emoji, nothing for a variation
\* selector or joiner, which is handed to no font) equals the width
\* calculate_text_width returned for the Line, the width it was wrapped and
\* centred with.
C13_RenderAdvanceIsMeasuredWidth ==
    LaidOut =>
        \A k \in 1..Len(w.rendered) :
            LET r == w.rendered[k]
            IN  r.drawn =>
                    /\ r.text_width = LineWidth(r.line)
                    /\ r.x_end - r.x = r.text_width
                    /\ \A i \in 1..Len(r.texts) : \A j \in 1..Len(r.texts[i]) :
                           ~IsIgnorable(r.texts[i][j])

\* C14: in a pass of the word loop the word is appended to the accumulating
\* line, after exactly one space when the line is not empty, if and only if
\* the line so made measures <= max_width_px (a line exactly at the budget
\* is accepted); the pass ends a Line only with a word that did not fit on
\* it, and the Line it ends is the accumulating line as it was.
C14_GreedyTiesAccepted ==
    [][(ws.pc = "words" /\ ws.words # <<>>) =>
          LET word == Head(ws.words)
              joined == IF ws.current_line = <<>> THEN word
                        ELSE ws.current_line \o <<" ">> \o word
              fit == calculate_text_width(joined, ws.emoji_font, FONT_SIZE)
                         <= ws.max_width_px
          IN  /\ ws'.words = Tail(ws.words)
              /\ fit <=> (ws'.current_line = joined /\ ws'.lines = ws.lines)
              /\ ws'.lines # ws.lines =>
                     /\ ~fit
                     /\ ws.current_line # <<>>
                     /\ ws'.lines = Append(ws.lines, ws.current_line)
              /\ (~fit /\ ws.current_line # <<>>) => ws'.lines # ws.lines]_vars

\* C14 witness: after a Line was ended, a word was appended after one space
\* to make an accumulating line exactly as wide as the budget
C14_Witness ==
    /\ ws.pc = "words"
    /\ ws.max_width_px = 43
    /\ ws.current_line = <<"a", " ", "a">>
    /\ calculate_text_width(ws.current_line, ws.emoji_font, FONT_SIZE) = ws.max_width_px
    /\ ws.lines = << <<"W">> >>

\* C15: every frame a session presents is at an offset from -DISPLAY_HEIGHT
\* (inclusive) to the image height (exclusive), so that once the image has
\* entered the viewport every frame shows at least one of its rows; between
\* frames the position held for the next frame is in the same range: it is
\* never left at or past the image height.
C15_OffsetInRange ==
    /\ lcd.op = "frame" =>
           LET h == tasks[lcd.by].total_text_height
           IN  /\ -DISPLAY_HEIGHT <= lcd.y /\ lcd.y < h
               /\ lcd.y = tasks[lcd.by].last_y
               /\ lcd.y > -DISPLAY_HEIGHT =>
                      \E r \in 1..DISPLAY_HEIGHT :
                          create_scroll_frame(FullImage(h), lcd.y,
                                              DISPLAY_HEIGHT).frame[r] # BgRow
    /\ \A t \in Tasks : tasks[t].pc = "sleeping" =>
           /\ -DISPLAY_HEIGHT <= tasks[t].y_position
           /\ tasks[t].y_position < tasks[t].total_text_height

\* C15 witness: the last frame of a cycle, with only the last rows of the
\* image left in the viewport, has been presented and the position reset
C15_Witness ==
    /\ lcd.op = "frame"
    /\ lcd.y = tasks[lcd.by].total_text_height - SCROLL_SPEED
    /\ tasks[lcd.by].pc = "sleeping"
    /\ tasks[lcd.by].y_position = -DISPLAY_HEIGHT

====
